---- MODULE Spec2Model ----
(***************************************************************************)
(* Telescope: the message-routed coordination layer between the browser    *)
(* runtime's TelescopeClient (packages/browser-runtime/src/tree-view.ts)   *)
(* and the TelescopeServer (packages/core/src/server.ts).                  *)
(*                                                                         *)
(* The client is a single-threaded, event-driven object: every action      *)
(* below is one task of the browser's event loop -- a call of the public   *)
(* API (connect, send, disconnect), an event of one of the WebSockets the  *)
(* client created (open, error, close, message) or the expiry of one of    *)
(* the timers it armed with setTimeout.  Time advances in steps of TickMs  *)
(* milliseconds; every armed timer carries the time left until it is due,  *)
(* a timer fires once that has reached 0, and the clock does not advance   *)
(* while a timer is due.                                                   *)
(***************************************************************************)
EXTENDS Integers, Sequences, FiniteSets, TLC

\* ------------------------------------------------------------------ bounds
MaxEvents  == 4      \* tasks the environment starts in one behaviour: API calls and transport events
MaxSockets == 2      \* WebSockets the client creates in one behaviour
MaxSends   == 2      \* send() calls in one behaviour
NumRandom  == 2      \* distinct outcomes of Math.random() within one clock step
MaxConns   == 2      \* connections the server accepts in one behaviour
MaxFrames  == 2      \* frames the server receives in one behaviour
MaxAttempts == 7     \* WebSockets the client creates in one behaviour of the reconnection specifications
MaxStops   == 2      \* stop() calls in one behaviour
MaxOps     == 2      \* retryWithBackoff calls on the singleton in one behaviour
MaxRetries == 3      \* largest maxRetries argument (3 is the default)
MaxPids    == 2      \* process ids the system hands out
MaxCalls   == 2      \* API calls and successful opens in one behaviour of the reconnection specifications

\* ------------------------------------------------- constants of the program
maxReconnectAttempts == 5
reconnectDelay       == 1000
connectTimeoutMs     == 5000
requestTimeoutMs     == 10000

TickMs == reconnectDelay      \* the clock's step: the smallest delay the client arms

\* A timer is the time left until it is due, or one of:
Fired   == -1                 \* the callback has run
Unarmed == -2                 \* setTimeout was not called

\* Inbound traffic.  A frame is either text JSON.parse rejects or an envelope
\* {type, payload, requestId}.  Payloads names three payloads: "a" is an
\* object whose `message` is "a", "empty" an object with no `message`, and
\* "null" the JSON null, on which reading `.message` throws.
Payloads     == {"a", "empty", "null"}
MessageTypes == {"component-selected", "error"}
NoRequestId  == <<0, 0>>      \* an envelope whose requestId names no request of this client
Envelopes(ids) == [type : MessageTypes, payload : Payloads, requestId : ids]

\* The listeners the page registers with on(), and the absence of one.
Handlers  == {"h1", "h2"}
NoHandler == "none"

\* The command line.  A process id is free, or held by a process of another
\* user ("foreign": signalling it fails with EPERM), by an unrelated process
\* of this user ("own"), or by a startCommand at one of its stages.  The PID
\* file is absent or holds text: the decimal digits of a process id, "0"
\* (a number that is no process id), "1abc" (digits with something after
\* them) or "junk" (no leading digits).
Pids         == 1..MaxPids
StartStages  == {"start", "listening", "running", "stopped", "unlinking"}
ProcKinds    == {"free", "foreign", "own"} \cup StartStages
DecimalText  == <<"1", "2", "3", "4", "5", "6", "7", "8", "9">>
FileContents == {"junk", "0", "1abc"} \cup {DecimalText[p] : p \in Pids}
NaN          == -1
OperationIdArgs == {"undefined", "", "save"}
OperationIdle == [pc |-> "idle", id |-> "none", maxRetries |-> 0, i |-> 0, calls |-> 0,
                  failed |-> 0, lastError |-> 0, waits |-> <<>>, result |-> 0, thrown |-> 0]
StopIdle     == [pc |-> "idle", pid |-> 0, sent |-> <<>>, outcome |-> "none"]
StatusIdle   == [pc |-> "idle", text |-> "none", pid |-> 0, report |-> "none",
                 probed |-> FALSE, threw |-> FALSE]

\* What settled a future: nothing yet, its own 10 s timer, or an envelope.
NotSettled == [type |-> "none", payload |-> "none", requestId |-> NoRequestId]
ByTimeout  == [type |-> "timeout", payload |-> "none", requestId |-> NoRequestId]

\* The server's side of the wire.  A frame is text JSON.parse rejects
\* ("garbage"), the JSON text null, or an envelope; the handlers ignore the
\* payload.  "bogus" is a type no case of routeMessage names, "absent" an
\* envelope without requestId.
RequestTypes == {"component-selected", "open-editor", "generate-testids", "insert-code"}
FrameTypes   == RequestTypes \cup {"bogus"}
RequestIds   == {"r1", "r2", "absent"}
Frames ==
  [kind : {"envelope"}, type : FrameTypes, requestId : RequestIds]
    \cup [kind : {"garbage", "null"}, type : {"none"}, requestId : {"absent"}]

VARIABLES
  sockets,            \* the WebSocket objects created by connect(), in creation order
  ws,                 \* this.ws: index into sockets, 0 for null
  isConnecting,       \* this.isConnecting
  reconnectAttempts,  \* this.reconnectAttempts
  messageQueue,       \* this.messageQueue: indices into reqs
  pendingRequests,    \* this.pendingRequests: requestId -> index of the request whose resolve/reject it holds
  reqs,               \* the send() calls made so far: id, future, timer
  sent,               \* every ws.send() made: <<socket, request>>, in order
  lastCall,           \* the API call made by the task that just ran, with the promise handed to the caller
  nEvents,            \* the tasks the environment has started: API calls and transport events
  wss,                \* TelescopeServer.wss: "null", or the listener's state: "listening", "closing"
  conns,              \* the server's WebSockets, one per accepted connection: readyState
  srvIn,              \* per connection, the frames its message handler has been given
  srvOut,             \* per connection, the messages ws.send() has been given
  stops,              \* the promises returned by the stop() calls made so far
  messageHandlers,    \* this.messageHandlers: message type -> handler
  registered,         \* per message type, the handler of the latest on() call, NoHandler after off()
  delivered,          \* type and requestId of the latest envelope given to handleMessage, and the handler it invoked
  pidFile,            \* content of <cwd>/.hubble.pid, "absent" when there is no such file
  procs,              \* per process id, the process that has it
  port,               \* the process listening on the configured host and port, 0 for none
  status,             \* the run of statusCommand: where it is, its locals, what it has reported
  stopCmd,            \* the run of stopCommand: where it is, its pid, the signals it has sent, how it ended
  retryAttempts,      \* errorHandler.retryAttempts: operation id -> number
  operations          \* per retryWithBackoff call on the singleton: its arguments, locals and outcome

clientVars == <<sockets, ws, isConnecting, reconnectAttempts, messageQueue,
                pendingRequests, reqs, sent, lastCall, nEvents>>
serverVars == <<wss, conns, srvIn, srvOut, stops>>
handlerVars == <<messageHandlers, registered, delivered>>
cliVars == <<pidFile, procs, port, status, stopCmd>>
retryVars == <<retryAttempts, operations>>
vars == <<clientVars, serverVars, handlerVars, cliVars, retryVars>>

\* The client's state as one value, so that a handler is a function from state
\* to state and handlers compose as the code calls them.
State ==
  [sockets |-> sockets, ws |-> ws, isConnecting |-> isConnecting,
   reconnectAttempts |-> reconnectAttempts, messageQueue |-> messageQueue,
   pendingRequests |-> pendingRequests, reqs |-> reqs, sent |-> sent]

Becomes(st) ==
  /\ sockets' = st.sockets
  /\ ws' = st.ws
  /\ isConnecting' = st.isConnecting
  /\ reconnectAttempts' = st.reconnectAttempts
  /\ messageQueue' = st.messageQueue
  /\ pendingRequests' = st.pendingRequests
  /\ reqs' = st.reqs
  /\ sent' = st.sent

RECURSIVE Pow2(_)
Pow2(n) == IF n = 0 THEN 1 ELSE 2 * Pow2(n - 1)

\* this.ws && this.ws.readyState === WebSocket.OPEN
wsIsOpen(st) == st.ws # 0 /\ st.sockets[st.ws].state = "OPEN"

\* new WebSocket(url) with the four handlers and the 5 s timer of connect(),
\* and the promise connect() returns for it.  reconnectIn is the timer that
\* reconnect() arms when this socket's close event calls it.
NewSocket ==
  [state |-> "CONNECTING", timer |-> connectTimeoutMs,
   promise |-> "pending", reconnectIn |-> Unarmed]

\* A promise settles once: resolve/reject on a settled promise does nothing.
Settle(p, outcome) == IF p = "pending" THEN outcome ELSE p

SettleRequest(r, outcome, value, by) ==
  IF r.fut = "pending"
  THEN [r EXCEPT !.fut = outcome, !.val = value, !.by = by]
  ELSE r

\* --------------------------------------------------------------- handlers

\* connect() without the test of isConnecting: the variant C5 must tell from
\* connect().
connectIgnoringFlag(st) ==
  IF wsIsOpen(st) THEN st
  ELSE [st EXCEPT !.isConnecting = TRUE,
                  !.sockets = Append(@, NewSocket),
                  !.ws = Len(st.sockets) + 1]

\* connect(): returns at once when the transport is open or an attempt is
\* flagged; otherwise creates the WebSocket and arms the 5 s timer.
connect(st) ==
  IF wsIsOpen(st) THEN st
  ELSE IF st.isConnecting THEN st
  ELSE [st EXCEPT !.isConnecting = TRUE,
                  !.sockets = Append(@, NewSocket),
                  !.ws = Len(st.sockets) + 1]

\* Which way connect() goes in st: "open" and "joined" are its two early
\* returns, "created" the new attempt.
connectOutcome(st) ==
  IF wsIsOpen(st) THEN "open"
  ELSE IF st.isConnecting THEN "joined"
  ELSE "created"

\* The promise connect() hands to its caller: an early `return;` of the async
\* function is a promise already resolved, the new attempt's is pending.
connectReturns(st) ==
  [call |-> "connect", outcome |-> connectOutcome(st),
   promise |-> IF connectOutcome(st) = "created" THEN "pending" ELSE "resolved"]

\* send() hands back a pending promise, having queued or transmitted.
sendReturns(st) ==
  [call |-> "send", outcome |-> IF wsIsOpen(st) THEN "transmitted" ELSE "queued",
   promise |-> "pending"]

\* disconnect() hands back nothing.
disconnectReturns == [call |-> "disconnect", outcome |-> "void", promise |-> "none"]

NoCall == [call |-> "none", outcome |-> "none", promise |-> "none"]

\* flushMessageQueue() that sends the envelopes without shifting them: the
\* variant C37 must tell from flushMessageQueue.
flushMessageQueueKeepingQueue(st) ==
  IF ~wsIsOpen(st) THEN st
  ELSE [st EXCEPT
          !.sent = @ \o [j \in 1..Len(st.messageQueue) |-> <<st.ws, st.messageQueue[j]>>]]

\* flushMessageQueue(): shift and send until the queue is empty.
flushMessageQueue(st) ==
  IF ~wsIsOpen(st) THEN st
  ELSE [st EXCEPT
          !.sent = @ \o [j \in 1..Len(st.messageQueue) |-> <<st.ws, st.messageQueue[j]>>],
          !.messageQueue = <<>>]

\* ws.onopen that leaves the reconnect counter as it is: the variant C17 must
\* tell from onopen.
onopenKeepingCounter(st, i) ==
  LET s1 == [st EXCEPT !.isConnecting = FALSE]
      s2 == flushMessageQueue(s1)
  IN  [s2 EXCEPT !.sockets[i].promise = Settle(@, "resolved")]

\* ws.onopen of socket i
onopen(st, i) ==
  LET s1 == [st EXCEPT !.isConnecting = FALSE, !.reconnectAttempts = 0]
      s2 == flushMessageQueue(s1)
  IN  [s2 EXCEPT !.sockets[i].promise = Settle(@, "resolved")]

\* ws.onerror of socket i
onerror(st, i) == [st EXCEPT !.isConnecting = FALSE]

\* reconnect() with a delay that grows by reconnectDelay per attempt instead
\* of doubling: the variant C13 must tell from reconnect().
reconnectLinear(st, i) ==
  IF st.reconnectAttempts >= maxReconnectAttempts THEN st
  ELSE [st EXCEPT
          !.sockets[i].reconnectIn = reconnectDelay * (st.reconnectAttempts + 1),
          !.reconnectAttempts = @ + 1]

\* reconnect(), called by the onclose of socket i
reconnect(st, i) ==
  IF st.reconnectAttempts >= maxReconnectAttempts THEN st
  ELSE [st EXCEPT
          !.sockets[i].reconnectIn = reconnectDelay * Pow2(st.reconnectAttempts),
          !.reconnectAttempts = @ + 1]

\* ws.onclose of socket i
onclose(st, i) ==
  reconnect([st EXCEPT !.isConnecting = FALSE, !.ws = 0], i)

\* The 5 s timer armed by the connect() call that created socket i.
connectTimer(st, i) ==
  LET s1 == [st EXCEPT !.sockets[i].timer = Fired]
  IN  IF st.isConnecting
      THEN [s1 EXCEPT !.isConnecting = FALSE,
                      !.sockets[i].promise = Settle(@, "rejected")]
      ELSE s1

\* Date.now(), as far as request ids depend on it: the requests made at the
\* current value of the clock are those whose 10 s timer has all its time
\* left, and the value is named by the first of them (by the request being
\* made, when there is none).  Two calls return the same value exactly when
\* the clock has not advanced between them.
dateNow(st) ==
  LET same == {k \in 1..Len(st.reqs) : st.reqs[k].timer = requestTimeoutMs}
  IN  IF same = {} THEN Len(st.reqs) + 1
      ELSE CHOOSE k \in same : \A j \in same : k <= j

\* generateRequestId(): `${Date.now()}-${Math.random()...}`
generateRequestId(st, rnd) == <<dateNow(st), rnd>>

\* pendingRequests.set(id, {resolve, reject}) of request k
pendingSet(pr, id, k) ==
  [x \in (DOMAIN pr) \cup {id} |-> IF x = id THEN k ELSE pr[x]]

\* pendingRequests.delete(id)
pendingDelete(pr, id) == [x \in (DOMAIN pr) \ {id} |-> pr[x]]

\* send(message), rnd the outcome of Math.random()
send(st, rnd) ==
  LET id == generateRequestId(st, rnd)
      k  == Len(st.reqs) + 1
      r  == [id |-> id, timer |-> requestTimeoutMs, fut |-> "pending",
             val |-> "none", by |-> NotSettled, late |-> FALSE,
             queued |-> ~wsIsOpen(st)]
  IN  IF ~wsIsOpen(st)
      THEN LET s1 == [st EXCEPT !.messageQueue = Append(@, k)]
               s2 == connect(s1)
           IN  [s2 EXCEPT !.reqs = Append(@, r),
                          !.pendingRequests = pendingSet(@, id, k)]
      ELSE [st EXCEPT !.sent = Append(@, <<st.ws, k>>),
                      !.reqs = Append(@, r),
                      !.pendingRequests = pendingSet(@, id, k)]

\* The 10 s timer rejecting without deleting the entry: the variant C18 must
\* tell from requestTimer.
requestTimerKeepingEntry(st, k) ==
  LET id == st.reqs[k].id
      s1 == [st EXCEPT !.reqs[k].timer = Fired]
  IN  IF id \in DOMAIN st.pendingRequests
      THEN [s1 EXCEPT !.reqs[k] = SettleRequest(@, "rejected", "Request timeout", ByTimeout)]
      ELSE s1

\* The 10 s timer of request k.
requestTimer(st, k) ==
  LET id == st.reqs[k].id
      s1 == [st EXCEPT !.reqs[k].timer = Fired]
  IN  IF id \in DOMAIN st.pendingRequests
      THEN [s1 EXCEPT !.pendingRequests = pendingDelete(@, id),
                      !.reqs[k] = SettleRequest(@, "rejected", "Request timeout", ByTimeout)]
      ELSE s1

\* new Error(message.payload.message || 'Server error')
errorMessage(payload) == IF payload = "empty" THEN "Server error" ELSE payload

\* The requests with this id that their own timer has rejected: a message
\* naming such an id is a late response.
Expired(st, id) ==
  {k \in 1..Len(st.reqs) : st.reqs[k].id = id /\ st.reqs[k].by = ByTimeout}

\* handleMessage answering the oldest entry of the table, whatever id the
\* message carries: the variant C1 must tell from handleMessage.
handleMessageOldestEntry(st, m) ==
  IF m.requestId # NoRequestId /\ DOMAIN st.pendingRequests # {}
  THEN LET id == CHOOSE x \in DOMAIN st.pendingRequests :
                   \A y \in DOMAIN st.pendingRequests :
                     st.pendingRequests[x] <= st.pendingRequests[y]
           k  == st.pendingRequests[id]
           s1 == [st EXCEPT !.pendingRequests = pendingDelete(@, id)]
       IN  IF m.type = "error"
           THEN IF m.payload = "null" THEN s1
                ELSE [s1 EXCEPT !.reqs[k] =
                        SettleRequest(@, "rejected", errorMessage(m.payload), m)]
           ELSE [s1 EXCEPT !.reqs[k] =
                   SettleRequest(@, "resolved", m.payload, m)]
  ELSE st

\* handleMessage(event) for a frame JSON.parse accepts.  With an entry under
\* the message's requestId: the entry is deleted, then the future settled; for
\* an 'error' whose payload is null, `message.payload.message` throws after
\* the delete and the catch logs.  Without one, the message goes to the
\* handler registered for its type, which touches nothing of the client; it
\* is noted (late) on the expired requests it names.
handleMessage(st, m) ==
  IF m.requestId # NoRequestId /\ m.requestId \in DOMAIN st.pendingRequests
  THEN LET k  == st.pendingRequests[m.requestId]
           s1 == [st EXCEPT !.pendingRequests = pendingDelete(@, m.requestId)]
       IN  IF m.type = "error"
           THEN IF m.payload = "null" THEN s1
                ELSE [s1 EXCEPT !.reqs[k] =
                        SettleRequest(@, "rejected", errorMessage(m.payload), m)]
           ELSE [s1 EXCEPT !.reqs[k] =
                   SettleRequest(@, "resolved", m.payload, m)]
  ELSE [st EXCEPT !.reqs = [k \in 1..Len(st.reqs) |->
                     IF k \in Expired(st, m.requestId)
                     THEN [st.reqs[k] EXCEPT !.late = TRUE] ELSE st.reqs[k]]]

\* ws.close(): an open or connecting socket starts closing
wsClose(s) ==
  IF s.state \in {"CONNECTING", "OPEN"} THEN [s EXCEPT !.state = "CLOSING"] ELSE s

\* pendingRequests.clear()
pendingClear(pr) == [x \in {} |-> 0]

\* disconnect() that forgets to empty the Outbound Queue: the variant C12
\* must tell from disconnect().
disconnectKeepingQueue(st) ==
  LET s1 == IF st.ws # 0
            THEN [st EXCEPT !.sockets[st.ws] = wsClose(@), !.ws = 0]
            ELSE st
  IN  [s1 EXCEPT !.pendingRequests = pendingClear(@),
                 !.reconnectAttempts = 0]

\* disconnect()
disconnect(st) ==
  LET s1 == IF st.ws # 0
            THEN [st EXCEPT !.sockets[st.ws] = wsClose(@), !.ws = 0]
            ELSE st
  IN  [s1 EXCEPT !.messageQueue = <<>>,
                 !.pendingRequests = pendingClear(@),
                 !.reconnectAttempts = 0]

\* on() that keeps a handler already registered for the type: the variant
\* C21 must tell from on.
onKeepingFirst(mh, t, h) ==
  [x \in (DOMAIN mh) \cup {t} |-> IF x \in DOMAIN mh THEN mh[x] ELSE h]

\* on(messageType, handler): messageHandlers.set
on(mh, t, h) == [x \in (DOMAIN mh) \cup {t} |-> IF x = t THEN h ELSE mh[x]]

\* off(messageType): messageHandlers.delete
off(mh, t) == [x \in (DOMAIN mh) \ {t} |-> mh[x]]

\* The handler handleMessage(event) invokes with message.payload: none when
\* the message answers a pending request (the function returns, or throws
\* into its catch, before it looks for a handler), else the one registered
\* for message.type, if any.
invokes(st, mh, m) ==
  IF m.requestId # NoRequestId /\ m.requestId \in DOMAIN st.pendingRequests
  THEN NoHandler
  ELSE IF m.type \in DOMAIN mh THEN mh[m.type] ELSE NoHandler

NoDelivery == [type |-> "none", requestId |-> NoRequestId, handler |-> NoHandler]

\* ----------------------------------------------------------------- timers

Timers ==
  {sockets[i].timer : i \in 1..Len(sockets)}
    \cup {sockets[i].reconnectIn : i \in 1..Len(sockets)}
    \cup {reqs[k].timer : k \in 1..Len(reqs)}

Elapse(t) == IF t > 0 THEN t - TickMs ELSE t

\* TickMs pass: every armed timer has that much less time left.
tick(st) ==
  [st EXCEPT
     !.sockets = [i \in 1..Len(st.sockets) |->
                    [st.sockets[i] EXCEPT !.timer = Elapse(@), !.reconnectIn = Elapse(@)]],
     !.reqs = [k \in 1..Len(st.reqs) |-> [st.reqs[k] EXCEPT !.timer = Elapse(@)]]]

\* ---------------------------------------------------------------- actions

\* A task the environment starts (a call by the page, an event of a
\* transport) and a task the client's own timers start.
PageTask  == nEvents < MaxEvents /\ nEvents' = nEvents + 1 /\ UNCHANGED <<serverVars, cliVars, retryVars>>
EnvTask   == PageTask /\ UNCHANGED handlerVars
TimerTask == UNCHANGED nEvents /\ UNCHANGED <<serverVars, handlerVars, cliVars, retryVars>>

\* The outcomes of Math.random() are named in the order in which they first
\* appear at one value of the clock: ids are only ever compared for equality.
RandomOutcomes(st) ==
  LET used == {st.reqs[k].id[2] : k \in {j \in 1..Len(st.reqs) : st.reqs[j].id[1] = dateNow(st)}}
  IN  {r \in 1..NumRandom : r <= Cardinality(used) + 1}

Init ==
  /\ sockets = <<>>
  /\ ws = 0
  /\ isConnecting = FALSE
  /\ reconnectAttempts = 0
  /\ messageQueue = <<>>
  /\ pendingRequests = [x \in {} |-> 0]
  /\ reqs = <<>>
  /\ sent = <<>>
  /\ lastCall = NoCall
  /\ nEvents = 0
  /\ wss = "null"
  /\ conns = <<>>
  /\ srvIn = <<>>
  /\ srvOut = <<>>
  /\ stops = <<>>
  /\ messageHandlers = [t \in {} |-> NoHandler]
  /\ registered = [t \in MessageTypes |-> NoHandler]
  /\ delivered = NoDelivery
  /\ pidFile = "absent"
  /\ procs = [p \in Pids |-> "free"]
  /\ port = 0
  /\ status = StatusIdle
  /\ stopCmd = StopIdle
  /\ retryAttempts = [x \in {} |-> 0]
  /\ operations = [o \in 1..MaxOps |-> OperationIdle]

\* The caller invokes connect().
Connect ==
  /\ EnvTask
  /\ connectOutcome(State) = "created" => Len(sockets) < MaxSockets
  /\ Becomes(connect(State))
  /\ lastCall' = connectReturns(State)

\* The caller invokes send().
Send ==
  /\ EnvTask
  /\ Len(reqs) < MaxSends
  /\ connectOutcome(State) = "created" => Len(sockets) < MaxSockets
  /\ \E rnd \in RandomOutcomes(State) : Becomes(send(State, rnd))
  /\ lastCall' = sendReturns(State)

\* The caller invokes disconnect().
Disconnect ==
  /\ EnvTask
  /\ Becomes(disconnect(State))
  /\ lastCall' = disconnectReturns

\* The transport of socket i opens.
WsOpen ==
  \E i \in 1..Len(sockets) :
    /\ EnvTask
    /\ sockets[i].state = "CONNECTING"
    /\ Becomes(onopen([State EXCEPT !.sockets[i].state = "OPEN"], i))
    /\ lastCall' = NoCall

\* The transport of socket i fails: the error event, then the close event,
\* in one task.
WsError ==
  \E i \in 1..Len(sockets) :
    /\ EnvTask
    /\ sockets[i].state \in {"CONNECTING", "OPEN", "CLOSING"}
    /\ Becomes(onclose(onerror([State EXCEPT !.sockets[i].state = "CLOSED"], i), i))
    /\ lastCall' = NoCall

\* The transport of socket i closes cleanly: by the peer, or as the end of
\* the closing handshake ws.close() began.
WsClose ==
  \E i \in 1..Len(sockets) :
    /\ EnvTask
    /\ sockets[i].state \in {"OPEN", "CLOSING"}
    /\ Becomes(onclose([State EXCEPT !.sockets[i].state = "CLOSED"], i))
    /\ lastCall' = NoCall

\* A frame arrives on open socket i.
WsMessage ==
  \E i \in 1..Len(sockets) :
    /\ EnvTask
    /\ sockets[i].state = "OPEN"
    /\ lastCall' = NoCall
    /\ \/ UNCHANGED <<sockets, ws, isConnecting, reconnectAttempts,
                      messageQueue, pendingRequests, reqs, sent>>
       \/ \E t \in MessageTypes, p \in Payloads,
             id \in {reqs[k].id : k \in 1..Len(reqs)} \cup {NoRequestId} :
            Becomes(handleMessage(State, [type |-> t, payload |-> p, requestId |-> id]))

ConnectTimeout ==
  \E i \in 1..Len(sockets) :
    /\ TimerTask
    /\ sockets[i].timer = 0
    /\ Becomes(connectTimer(State, i))
    /\ lastCall' = NoCall

RequestTimeout ==
  \E k \in 1..Len(reqs) :
    /\ TimerTask
    /\ reqs[k].timer = 0
    /\ Becomes(requestTimer(State, k))
    /\ lastCall' = NoCall

\* The timer armed by reconnect() fires and calls connect().
ReconnectTimer ==
  \E i \in 1..Len(sockets) :
    /\ TimerTask
    /\ sockets[i].reconnectIn = 0
    /\ connectOutcome(State) = "created" => Len(sockets) < MaxSockets
    /\ Becomes(connect([State EXCEPT !.sockets[i].reconnectIn = Fired]))
    /\ lastCall' = NoCall

\* Time passes while no timer is due.
Tick ==
  /\ TimerTask
  /\ 0 \notin Timers
  /\ \E t \in Timers : t > 0
  /\ Becomes(tick(State))
  /\ lastCall' = NoCall

Next ==
  \/ Connect
  \/ Send
  \/ Disconnect
  \/ WsOpen
  \/ WsError
  \/ WsClose
  \/ WsMessage
  \/ ConnectTimeout
  \/ RequestTimeout
  \/ ReconnectTimer
  \/ Tick

Spec == Init /\ [][Next]_vars

\* ----------------------------------------------------------------- server

\* sendResponse(ws, requestId, payload): the one message given to ws.send()
sendResponse(requestId, payload) ==
  <<[type |-> "component-selected", requestId |-> requestId, payload |-> payload]>>

\* sendError(ws, requestId, error): payload.message is error.message
sendError(requestId, message) ==
  <<[type |-> "error", requestId |-> requestId, payload |-> message]>>

handleComponentSelected(requestId) == sendResponse(requestId, "acknowledged")
handleOpenEditor(requestId)        == sendResponse(requestId, "pending")
handleGenerateTestIds(requestId)   == sendResponse(requestId, "pending")
handleInsertCode(requestId)        == sendResponse(requestId, "pending")

\* routeMessage whose default case sends nothing: the variant C3 must tell
\* from routeMessage.
routeMessageKnownTypes(message) ==
  CASE message.type = "component-selected" -> handleComponentSelected(message.requestId)
    [] message.type = "open-editor"        -> handleOpenEditor(message.requestId)
    [] message.type = "generate-testids"   -> handleGenerateTestIds(message.requestId)
    [] message.type = "insert-code"        -> handleInsertCode(message.requestId)
    [] OTHER -> <<>>

\* routeMessage whose default case reports the error as the listener's
\* catch does, under 'unknown' and without the type: the variant C22 must
\* tell from routeMessage.
routeMessageAnonymousError(message) ==
  CASE message.type = "component-selected" -> handleComponentSelected(message.requestId)
    [] message.type = "open-editor"        -> handleOpenEditor(message.requestId)
    [] message.type = "generate-testids"   -> handleGenerateTestIds(message.requestId)
    [] message.type = "insert-code"        -> handleInsertCode(message.requestId)
    [] OTHER -> sendError("unknown", "Unknown message type")

\* routeMessage(message, ws) for an envelope: the messages it sends
routeMessage(message) ==
  CASE message.type = "component-selected" -> handleComponentSelected(message.requestId)
    [] message.type = "open-editor"        -> handleOpenEditor(message.requestId)
    [] message.type = "generate-testids"   -> handleGenerateTestIds(message.requestId)
    [] message.type = "insert-code"        -> handleInsertCode(message.requestId)
    [] OTHER -> sendError(message.requestId, "Unknown message type: " \o message.type)

\* The 'message' listener of handleConnection: JSON.parse throws on garbage;
\* for the text null, reading message.type throws in routeMessage before its
\* try block; both reach the listener's catch.
onMessage(frame) ==
  IF frame.kind = "garbage" THEN sendError("unknown", "SyntaxError")
  ELSE IF frame.kind = "null" THEN sendError("unknown", "TypeError")
  ELSE routeMessage(frame)

ServerTask == UNCHANGED <<clientVars, handlerVars, cliVars, retryVars>>

\* start(): the listener is created and begins to listen.
ServerStart ==
  /\ ServerTask
  /\ wss = "null"
  /\ wss' = "listening"
  /\ UNCHANGED <<conns, srvIn, srvOut, stops>>

\* A client connects: the 'connection' event calls handleConnection(ws).
ServerConnection ==
  /\ ServerTask
  /\ wss = "listening"
  /\ Len(conns) < MaxConns
  /\ conns' = Append(conns, "OPEN")
  /\ srvIn' = Append(srvIn, <<>>)
  /\ srvOut' = Append(srvOut, <<>>)
  /\ UNCHANGED <<wss, stops>>

RECURSIVE FramesReceived(_)
FramesReceived(c) == IF c = 0 THEN 0 ELSE Len(srvIn[c]) + FramesReceived(c - 1)

\* A frame arrives on connection c: one run of the 'message' listener.
ServerMessage ==
  \E c \in 1..Len(conns), frame \in Frames :
    /\ ServerTask
    /\ conns[c] = "OPEN"
    /\ FramesReceived(Len(conns)) < MaxFrames
    /\ srvIn' = [srvIn EXCEPT ![c] = Append(@, frame)]
    /\ srvOut' = [srvOut EXCEPT ![c] = @ \o onMessage(frame)]
    /\ UNCHANGED <<wss, conns, stops>>

\* Connection c closes: the 'close' listener only logs.
ServerConnClose ==
  \E c \in 1..Len(conns) :
    /\ ServerTask
    /\ conns[c] = "OPEN"
    /\ conns' = [conns EXCEPT ![c] = "CLOSED"]
    /\ UNCHANGED <<wss, srvIn, srvOut, stops>>

ServerNext ==
  \/ ServerStart
  \/ ServerConnection
  \/ ServerMessage
  \/ ServerConnClose

ServerSpec == Init /\ [][ServerNext]_vars

\* ------------------------------------------------------------------ stop()
\* stop() hands its callback to wss.close().  The listener is the HTTP server
\* the WebSocketServer created for itself: close() stops it from accepting
\* connections and leaves the connections it has; the callback runs once the
\* HTTP server has closed, which is when the last of them has ended.

\* stop() that does not wait for the callback: the variant C25 must tell from
\* stop.
stopWithoutWaiting(w) == [wss |-> "null", promise |-> "resolved"]

\* stop() that settles nothing when there is no listener: the variant C26
\* must tell from stop.
stopOnlyWhenStarted(w) ==
  IF w = "null" THEN [wss |-> "null", promise |-> "pending"]
  ELSE [wss |-> "closing", promise |-> "pending"]

\* stop(): this.wss and the promise, when the call returns
stop(w) ==
  IF w = "null" THEN [wss |-> "null", promise |-> "resolved"]
  ELSE [wss |-> "closing", promise |-> "pending"]

\* stop() is called.
StopCall ==
  /\ ServerTask
  /\ Len(stops) < MaxStops
  /\ wss' = stop(wss).wss
  /\ stops' = Append(stops, stop(wss).promise)
  /\ UNCHANGED <<conns, srvIn, srvOut>>

\* The listener has closed: the callbacks given to wss.close() run, each
\* sets this.wss = null and resolves its promise.
StopCallback ==
  /\ ServerTask
  /\ wss = "closing"
  /\ \A c \in 1..Len(conns) : conns[c] = "CLOSED"
  /\ wss' = "null"
  /\ stops' = [k \in 1..Len(stops) |-> "resolved"]
  /\ UNCHANGED <<conns, srvIn, srvOut>>

\* What a frame holds makes no difference to stop(): one request and one
\* text JSON.parse rejects stand for all frames here.
StopFrames ==
  {f \in Frames : f.kind = "garbage" \/ (f.type = "open-editor" /\ f.requestId = "r1")}

\* A frame arrives on connection c: one run of the 'message' listener.
StopMessage ==
  \E c \in 1..Len(conns), frame \in StopFrames :
    /\ ServerTask
    /\ conns[c] = "OPEN"
    /\ FramesReceived(Len(conns)) < MaxFrames
    /\ srvIn' = [srvIn EXCEPT ![c] = Append(@, frame)]
    /\ srvOut' = [srvOut EXCEPT ![c] = @ \o onMessage(frame)]
    /\ UNCHANGED <<wss, conns, stops>>

StopNext ==
  \/ ServerStart
  \/ ServerConnection
  \/ StopMessage
  \/ ServerConnClose
  \/ StopCall
  \/ StopCallback

StopSpec == Init /\ [][StopNext]_vars

\* ------------------------------------------------------ handlers that raise
\* The four handlers of server.ts are placeholders that send their result
\* and return.  DispatchSpec lets the handler of a request raise instead,
\* before it has sent anything, as an implementation that does real work
\* may; what routeMessage does with the error is the code's.

\* error.message of the error a handler raises
HandlerError == "handler failed"

\* The catch of routeMessage under 'unknown', as the listener's catch reports
\* an error: the variant C23 must tell from dispatchCatch.
dispatchCatchUnknownId(requestId, message) == sendError("unknown", message)

\* The catch of routeMessage: sendError(ws, message.requestId, error)
dispatchCatch(requestId, message) == sendError(requestId, message)

\* routeMessage(message, ws) when the handler the switch calls raises
routeMessageRaising(message) ==
  IF message.type \in RequestTypes
  THEN dispatchCatch(message.requestId, HandlerError)
  ELSE routeMessage(message)

\* The four handlers are called and caught in the same way: two of them
\* stand for all four here.
DispatchFrames ==
  {f \in Frames : f.kind = "envelope" => f.type \in {"open-editor", "insert-code", "bogus"}}

\* A frame arrives on connection c; the handler it reaches, if any, raises
\* or not.
DispatchMessage ==
  \E c \in 1..Len(conns), frame \in DispatchFrames, raises \in BOOLEAN :
    /\ ServerTask
    /\ conns[c] = "OPEN"
    /\ FramesReceived(Len(conns)) < MaxFrames
    /\ raises => frame.kind = "envelope" /\ frame.type \in RequestTypes
    /\ srvIn' = [srvIn EXCEPT ![c] =
                   Append(@, [kind |-> frame.kind, type |-> frame.type,
                              requestId |-> frame.requestId, raises |-> raises])]
    /\ srvOut' = [srvOut EXCEPT ![c] =
                    @ \o (IF raises THEN routeMessageRaising(frame) ELSE onMessage(frame))]
    /\ UNCHANGED <<wss, conns, stops>>

DispatchNext ==
  \/ ServerStart
  \/ ServerConnection
  \/ DispatchMessage
  \/ ServerConnClose

DispatchSpec == Init /\ [][DispatchNext]_vars

\* ----------------------------------------------------- handlers in flight
\* Handlers that take time: routeMessage awaits the handler, and further
\* 'message' events, of this and of other connections, run meanwhile.

\* A server that keeps the socket of the latest connection in a field and
\* answers on it: the variant C33 must tell from responseSocket.
responseSocketLatest(c, n) == n

\* The socket a response is given to: the ws that handleConnection(ws) was
\* called with, which the listener's closure hands to routeMessage, the
\* handler, sendResponse and sendError.  c is the connection of the frame,
\* n the latest connection.
responseSocket(c, n) == c

\* ws.send(data): a socket that is no longer open sends nothing.
wsSend(out, state, c, messages) ==
  IF state[c] = "OPEN" THEN [out EXCEPT ![c] = @ \o messages] ELSE out

\* A frame arrives on connection c.  A request of a known type starts its
\* handler; everything else is answered at once.
HandlerBegins ==
  \E c \in 1..Len(conns), frame \in DispatchFrames :
    LET known == frame.kind = "envelope" /\ frame.type \in RequestTypes
    IN  /\ ServerTask
        /\ conns[c] = "OPEN"
        /\ FramesReceived(Len(conns)) < MaxFrames
        /\ srvIn' = [srvIn EXCEPT ![c] =
                       Append(@, [kind |-> frame.kind, type |-> frame.type,
                                  requestId |-> frame.requestId, inFlight |-> known])]
        /\ srvOut' = IF known THEN srvOut
                      ELSE wsSend(srvOut, conns, responseSocket(c, Len(conns)), onMessage(frame))
        /\ UNCHANGED <<wss, conns, stops>>

\* The handler of the j-th frame of connection c ends, with its result or
\* by raising.
HandlerEnds ==
  \E c \in 1..Len(conns), raises \in BOOLEAN :
    \E j \in 1..Len(srvIn[c]) :
      /\ ServerTask
      /\ srvIn[c][j].inFlight
      /\ srvIn' = [srvIn EXCEPT ![c][j].inFlight = FALSE]
      /\ srvOut' = wsSend(srvOut, conns, responseSocket(c, Len(conns)),
                           IF raises THEN routeMessageRaising(srvIn[c][j])
                           ELSE routeMessage(srvIn[c][j]))
      /\ UNCHANGED <<wss, conns, stops>>

ConcurrentNext ==
  \/ ServerStart
  \/ ServerConnection
  \/ HandlerBegins
  \/ HandlerEnds
  \/ ServerConnClose

ConcurrentSpec == Init /\ [][ConcurrentNext]_vars

\* ------------------------------------------------- reconnection in depth
\* The client alone with a server that is down: the caller's connect(),
\* transports that fail, and the timers (BackoffSpec); the same with the
\* caller's send() (BackoffSendSpec).  No transport opens, so every closure is
\* one more consecutive failure.  Transport failures are not counted against
\* a budget: each WebSocket fails at most once.

CallTask      == nEvents < MaxCalls /\ nEvents' = nEvents + 1 /\ UNCHANGED <<serverVars, handlerVars, cliVars, retryVars>>
TransportTask == UNCHANGED nEvents /\ UNCHANGED <<serverVars, handlerVars, cliVars, retryVars>>

MayCreate(st) == connectOutcome(st) = "created" => Len(st.sockets) < MaxAttempts

\* The caller invokes connect().
BoConnect ==
  /\ CallTask
  /\ MayCreate(State)
  /\ Becomes(connect(State))
  /\ lastCall' = connectReturns(State)

\* The caller invokes send().
BoSend ==
  /\ CallTask
  /\ Len(reqs) < MaxSends
  /\ MayCreate(State)
  /\ \E rnd \in RandomOutcomes(State) : Becomes(send(State, rnd))
  /\ lastCall' = sendReturns(State)

\* The transport of socket i fails: the error event, then the close event.
BoFail ==
  \E i \in 1..Len(sockets) :
    /\ TransportTask
    /\ sockets[i].state \in {"CONNECTING", "OPEN", "CLOSING"}
    /\ Becomes(onclose(onerror([State EXCEPT !.sockets[i].state = "CLOSED"], i), i))
    /\ lastCall' = NoCall

\* The timer armed by reconnect() fires and calls connect().
BoReconnectTimer ==
  \E i \in 1..Len(sockets) :
    /\ TimerTask
    /\ sockets[i].reconnectIn = 0
    /\ MayCreate(State)
    /\ Becomes(connect([State EXCEPT !.sockets[i].reconnectIn = Fired]))
    /\ lastCall' = NoCall

BackoffNext ==
  \/ BoConnect
  \/ BoFail
  \/ BoReconnectTimer
  \/ ConnectTimeout
  \/ Tick

BackoffSpec == Init /\ [][BackoffNext]_vars

BackoffSendNext ==
  \/ BackoffNext
  \/ BoSend
  \/ RequestTimeout

BackoffSendSpec == Init /\ [][BackoffSendNext]_vars

\* The same client with a server that comes and goes: transports may also
\* open, close cleanly, and the caller may disconnect (ReconnectSpec).

\* The transport of socket i opens.
RcOpen ==
  \E i \in 1..Len(sockets) :
    /\ CallTask
    /\ sockets[i].state = "CONNECTING"
    /\ Becomes(onopen([State EXCEPT !.sockets[i].state = "OPEN"], i))
    /\ lastCall' = NoCall

\* The transport of socket i closes cleanly.
RcClose ==
  \E i \in 1..Len(sockets) :
    /\ TransportTask
    /\ sockets[i].state \in {"OPEN", "CLOSING"}
    /\ Becomes(onclose([State EXCEPT !.sockets[i].state = "CLOSED"], i))
    /\ lastCall' = NoCall

\* The caller invokes disconnect().
RcDisconnect ==
  /\ CallTask
  /\ Becomes(disconnect(State))
  /\ lastCall' = disconnectReturns

\* Transports created in a behaviour of ReconnectSpec: the attempt of the
\* caller and the automatic attempts the cap allows after it.
MaxTransports == maxReconnectAttempts + 1

\* The caller invokes connect().
RcConnect ==
  /\ BoConnect
  /\ Len(sockets') <= MaxTransports

\* The reconnect timer armed by the closure of socket i fires: connect().
RcReconnectTimer ==
  /\ BoReconnectTimer
  /\ Len(sockets') <= MaxTransports

ReconnectNext ==
  \/ RcConnect
  \/ BoFail
  \/ RcReconnectTimer
  \/ ConnectTimeout
  \/ Tick
  \/ RcOpen
  \/ RcClose
  \/ RcDisconnect

ReconnectSpec == Init /\ [][ReconnectNext]_vars

\* ------------------------------------------------ server-initiated messages
\* The client on a transport that stays up, with a page that registers and
\* removes listeners while requests are in flight (HandlerSpec).

\* The page calls on(t, h).
HOn ==
  \E t \in MessageTypes, h \in Handlers :
    /\ UNCHANGED <<clientVars, serverVars, cliVars, retryVars, delivered>>
    /\ messageHandlers' = on(messageHandlers, t, h)
    /\ registered' = [registered EXCEPT ![t] = h]

\* The page calls off(t).
HOff ==
  \E t \in MessageTypes :
    /\ UNCHANGED <<clientVars, serverVars, cliVars, retryVars, delivered>>
    /\ messageHandlers' = off(messageHandlers, t)
    /\ registered' = [registered EXCEPT ![t] = NoHandler]

\* An envelope arrives on open socket i: handleMessage(event).
HMessage ==
  \E i \in 1..Len(sockets), t \in MessageTypes, p \in Payloads,
     id \in {reqs[k].id : k \in 1..Len(reqs)} \cup {NoRequestId} :
    LET m == [type |-> t, payload |-> p, requestId |-> id]
    IN  /\ PageTask
        /\ sockets[i].state = "OPEN"
        /\ Becomes(handleMessage(State, m))
        /\ lastCall' = NoCall
        /\ delivered' = [type |-> t, requestId |-> id,
                          handler |-> invokes(State, messageHandlers, m)]
        /\ UNCHANGED <<messageHandlers, registered>>

HandlerNext ==
  \/ HOn
  \/ HOff
  \/ HMessage
  \/ Send
  \/ WsOpen
  \/ ConnectTimeout
  \/ RequestTimeout
  \/ Tick

HandlerSpec == Init /\ [][HandlerNext]_vars

\* ------------------------------------------------------------ command line
\* startCommand and statusCommand run in processes of their own, next to
\* whatever else the system runs; every call of fs or process.kill is one
\* step, so that the steps of different processes interleave (CliSpec).

CliTask == UNCHANGED <<clientVars, serverVars, handlerVars, retryVars>>

\* parseInt(text.trim(), 10): the number the leading digits spell, NaN
\* without leading digits.
parseIntOf(content) ==
  IF content = "0" THEN 0
  ELSE IF content = "1abc" THEN 1
  ELSE IF \E n \in 1..Len(DecimalText) : DecimalText[n] = content
       THEN CHOOSE n \in 1..Len(DecimalText) : DecimalText[n] = content
  ELSE NaN

\* process.kill(pid, 0): pid 0 signals the caller's own process group;
\* signalling a process of another user fails with EPERM, signalling none
\* with ESRCH.
kill0(pid) ==
  IF pid = 0 THEN "ok"
  ELSE IF procs[pid] = "free" THEN "ESRCH"
  ELSE IF procs[pid] = "foreign" THEN "EPERM"
  ELSE "ok"

\* A process of this or of another user gets the free process id p.
ProcSpawn ==
  \E p \in Pids, k \in {"own", "foreign"} :
    /\ CliTask
    /\ procs[p] = "free"
    /\ procs' = [procs EXCEPT ![p] = k]
    /\ UNCHANGED <<pidFile, port, status, stopCmd>>

\* Process p ends without running any handler: killed, or crashed.
ProcExit ==
  \E p \in Pids :
    /\ CliTask
    /\ procs[p] # "free"
    /\ procs' = [procs EXCEPT ![p] = "free"]
    /\ port' = IF port = p THEN 0 ELSE port
    /\ UNCHANGED <<pidFile, status, stopCmd>>

\* Something other than the commands writes or removes the PID file.
FileTamper ==
  \E c \in FileContents \cup {"absent"} :
    /\ CliTask
    /\ pidFile' = c
    /\ UNCHANGED <<procs, port, status, stopCmd>>

\* `start` is run in a new process p: the configuration is loaded, the
\* server constructed, start() creates the WebSocketServer.
StartLaunch ==
  \E p \in Pids :
    /\ CliTask
    /\ procs[p] = "free"
    /\ procs' = [procs EXCEPT ![p] = "start"]
    /\ UNCHANGED <<pidFile, port, status, stopCmd>>

\* The 'listening' event: the address was free; start() resolves.
StartListening ==
  \E p \in Pids :
    /\ CliTask
    /\ procs[p] = "start"
    /\ port = 0
    /\ port' = p
    /\ procs' = [procs EXCEPT ![p] = "listening"]
    /\ UNCHANGED <<pidFile, status, stopCmd>>

\* A startCommand that goes on to the write when start() has rejected.
\* C39 must tell it from StartBindError.
StartBindErrorThenWrite ==
  \E p \in Pids :
    /\ CliTask
    /\ procs[p] = "start"
    /\ port # 0
    /\ pidFile' = DecimalText[p]
    /\ procs' = [procs EXCEPT ![p] = "free"]
    /\ UNCHANGED <<port, status, stopCmd>>

\* The 'error' event: the address is in use; start() rejects, startCommand
\* throws and the process exits.
StartBindError ==
  \E p \in Pids :
    /\ CliTask
    /\ procs[p] = "start"
    /\ port # 0
    /\ procs' = [procs EXCEPT ![p] = "free"]
    /\ UNCHANGED <<pidFile, port, status, stopCmd>>

\* fs.writeFileSync(pidPath, process.pid.toString())
StartWritePid ==
  \E p \in Pids :
    /\ CliTask
    /\ procs[p] = "listening"
    /\ pidFile' = DecimalText[p]
    /\ procs' = [procs EXCEPT ![p] = "running"]
    /\ UNCHANGED <<port, status, stopCmd>>

\* SIGINT or SIGTERM reaches a server whose handlers are registered:
\* cleanup() awaits server.stop(), which closes the listener.
StartSignal ==
  \E p \in Pids :
    /\ CliTask
    /\ procs[p] = "running"
    /\ procs' = [procs EXCEPT ![p] = "stopped"]
    /\ port' = IF port = p THEN 0 ELSE port
    /\ UNCHANGED <<pidFile, status, stopCmd>>

\* cleanup(): fs.existsSync(pidPath); without the file, process.exit(0).
StartCleanupExists ==
  \E p \in Pids :
    /\ CliTask
    /\ procs[p] = "stopped"
    /\ procs' = [procs EXCEPT ![p] = IF pidFile = "absent" THEN "free" ELSE "unlinking"]
    /\ UNCHANGED <<pidFile, port, status, stopCmd>>

\* cleanup(): fs.unlinkSync(pidPath), then process.exit(0); when the unlink
\* throws the process ends on the unhandled rejection.
StartCleanupUnlink ==
  \E p \in Pids :
    /\ CliTask
    /\ procs[p] = "unlinking"
    /\ pidFile' = "absent"
    /\ procs' = [procs EXCEPT ![p] = "free"]
    /\ UNCHANGED <<port, status, stopCmd>>

\* `status` is run: fs.existsSync(pidPath); without the file it reports
\* "not running" and returns.
StatusExists ==
  /\ CliTask
  /\ status.pc \in {"idle", "done"}
  /\ status' = IF pidFile = "absent"
               THEN [StatusIdle EXCEPT !.pc = "done", !.report = "not running"]
               ELSE [StatusIdle EXCEPT !.pc = "read"]
  /\ UNCHANGED <<pidFile, procs, port, stopCmd>>

\* fs.readFileSync(pidPath) and parseInt: the read throws when the file has
\* gone; NaN is reported as "not running (invalid PID file)".
StatusRead ==
  /\ CliTask
  /\ status.pc = "read"
  /\ status' = IF pidFile = "absent"
               THEN [status EXCEPT !.pc = "done", !.threw = TRUE]
               ELSE IF parseIntOf(pidFile) = NaN
               THEN [status EXCEPT !.pc = "done", !.text = pidFile, !.report = "not running"]
               ELSE [status EXCEPT !.pc = "kill", !.text = pidFile, !.pid = parseIntOf(pidFile)]
  /\ UNCHANGED <<pidFile, procs, port, stopCmd>>

\* process.kill(pid, 0) in its try: processRunning; when it threw, "not
\* running" is reported and the stale file cleaned up.
StatusKill ==
  /\ CliTask
  /\ status.pc = "kill"
  /\ status' = IF kill0(status.pid) = "ok"
               THEN [status EXCEPT !.pc = "probe"]
               ELSE [status EXCEPT !.pc = "cleanup", !.report = "not running"]
  /\ UNCHANGED <<pidFile, procs, port, stopCmd>>

\* new WebSocket(wsUrl), its listeners and the 3 s timer.
StatusProbe ==
  /\ CliTask
  /\ status.pc = "probe"
  /\ status' = [status EXCEPT !.pc = "probing", !.probed = TRUE]
  /\ UNCHANGED <<pidFile, procs, port, stopCmd>>

\* The first of 'open', 'error' and the 3 s timer settles the promise; the
\* transport can open only while some process listens on the address.
StatusProbeEnds ==
  \E outcome \in {"open", "error", "timeout"} :
    /\ CliTask
    /\ status.pc = "probing"
    /\ outcome = "open" => port # 0
    /\ status' = [status EXCEPT !.pc = "done",
                     !.report = IF outcome = "open" THEN "healthy" ELSE "not responding"]
    /\ UNCHANGED <<pidFile, procs, port, stopCmd>>

\* fs.existsSync(pidPath) of the cleanup
StatusCleanup ==
  /\ CliTask
  /\ status.pc = "cleanup"
  /\ status' = [status EXCEPT !.pc = IF pidFile = "absent" THEN "done" ELSE "unlink"]
  /\ UNCHANGED <<pidFile, procs, port, stopCmd>>

\* fs.unlinkSync(pidPath) of the cleanup, after the report has been printed;
\* it throws when the file has gone.
StatusUnlink ==
  /\ CliTask
  /\ status.pc = "unlink"
  /\ status' = [status EXCEPT !.pc = "done", !.threw = (pidFile = "absent")]
  /\ pidFile' = "absent"
  /\ UNCHANGED <<procs, port, stopCmd>>

\* What the processes are once signal sig has reached process pid: a server
\* whose handlers are registered runs cleanup() on SIGTERM, every other
\* process of this user ends; SIGKILL ends them all.  Signalling a process
\* of another user, or none, changes nothing.
signalled(ps, pid, sig) ==
  IF pid \notin Pids \/ ps[pid] \in {"free", "foreign"} THEN ps
  ELSE IF sig = "SIGKILL" THEN [ps EXCEPT ![pid] = "free"]
  ELSE IF ps[pid] = "running" THEN [ps EXCEPT ![pid] = "stopped"]
  ELSE IF ps[pid] \in {"stopped", "unlinking"} THEN ps
  ELSE [ps EXCEPT ![pid] = "free"]

\* The listener of the address once the processes are ps.
portAfter(ps, prt) ==
  IF prt # 0 /\ ps[prt] \in {"listening", "running"} THEN prt ELSE 0

\* Lines 42-49 without the test: the forceful signal whatever the check says.
afterGraceAlwaysForce(alive) == "sigkill"

\* Lines 42-49: after the wait, process.kill(pid, 0) decides between the
\* forceful signal and the removal of the file.
afterGrace(alive) == IF alive = "ok" THEN "sigkill" ELSE "exists2"

\* `stop` is run: fs.existsSync(pidPath); without the file it returns.
StopExists ==
  /\ CliTask
  /\ stopCmd.pc \in {"idle", "done"}
  /\ stopCmd' = IF pidFile = "absent"
                THEN [StopIdle EXCEPT !.pc = "done", !.outcome = "returned"]
                ELSE [StopIdle EXCEPT !.pc = "read"]
  /\ UNCHANGED <<pidFile, procs, port, status>>

\* fs.readFileSync(pidPath) and parseInt; the read throws when the file has
\* gone.
StopRead ==
  /\ CliTask
  /\ stopCmd.pc = "read"
  /\ stopCmd' = IF pidFile = "absent"
                THEN [stopCmd EXCEPT !.pc = "catch"]
                ELSE IF parseIntOf(pidFile) = NaN
                THEN [stopCmd EXCEPT !.pc = "unlink"]
                ELSE [stopCmd EXCEPT !.pc = "kill", !.pid = parseIntOf(pidFile)]
  /\ UNCHANGED <<pidFile, procs, port, status>>

\* process.kill(pid, 0) in its try.
StopKill ==
  /\ CliTask
  /\ stopCmd.pc = "kill"
  /\ stopCmd' = [stopCmd EXCEPT !.pc = IF kill0(stopCmd.pid) = "ok" THEN "term" ELSE "unlink"]
  /\ UNCHANGED <<pidFile, procs, port, status>>

\* fs.unlinkSync(pidPath) of lines 22 and 31, then return; it throws when
\* the file has gone.
StopUnlink ==
  /\ CliTask
  /\ stopCmd.pc = "unlink"
  /\ stopCmd' = IF pidFile = "absent"
                THEN [stopCmd EXCEPT !.pc = "catch"]
                ELSE [stopCmd EXCEPT !.pc = "done", !.outcome = "returned"]
  /\ pidFile' = "absent"
  /\ UNCHANGED <<procs, port, status>>

\* process.kill(pid, 'SIGTERM') and the start of the 1000 ms wait.  It
\* throws when the process has gone or is now another user's; with pid 0
\* the signal goes to the group of the command itself, which ends.
StopTerm ==
  /\ CliTask
  /\ stopCmd.pc = "term"
  /\ stopCmd' = IF kill0(stopCmd.pid) # "ok"
                THEN [stopCmd EXCEPT !.pc = "catch"]
                ELSE IF stopCmd.pid = 0
                THEN [stopCmd EXCEPT !.pc = "done", !.sent = Append(@, "SIGTERM"), !.outcome = "killed"]
                ELSE [stopCmd EXCEPT !.pc = "wait", !.sent = Append(@, "SIGTERM")]
  /\ procs' = signalled(procs, stopCmd.pid, "SIGTERM")
  /\ port' = portAfter(procs', port)
  /\ UNCHANGED <<pidFile, status>>

\* The 1000 ms timer runs: process.kill(pid, 0) in the second try.
StopGraceOver ==
  /\ CliTask
  /\ stopCmd.pc = "wait"
  /\ stopCmd' = [stopCmd EXCEPT !.pc = afterGrace(kill0(stopCmd.pid))]
  /\ UNCHANGED <<pidFile, procs, port, status>>

\* process.kill(pid, 'SIGKILL') in the second try, whose catch swallows
\* what it throws.
StopForce ==
  /\ CliTask
  /\ stopCmd.pc = "sigkill"
  /\ stopCmd' = [stopCmd EXCEPT !.pc = "exists2",
                    !.sent = IF kill0(stopCmd.pid) = "ok" THEN Append(@, "SIGKILL") ELSE @]
  /\ procs' = signalled(procs, stopCmd.pid, "SIGKILL")
  /\ port' = portAfter(procs', port)
  /\ UNCHANGED <<pidFile, status>>

\* fs.existsSync(pidPath) of line 52; without the file the command returns.
StopExistsAfter ==
  /\ CliTask
  /\ stopCmd.pc = "exists2"
  /\ stopCmd' = IF pidFile = "absent"
                THEN [stopCmd EXCEPT !.pc = "done", !.outcome = "returned"]
                ELSE [stopCmd EXCEPT !.pc = "unlink2"]
  /\ UNCHANGED <<pidFile, procs, port, status>>

\* fs.unlinkSync(pidPath) of line 53, then return.
StopUnlinkAfter ==
  /\ CliTask
  /\ stopCmd.pc = "unlink2"
  /\ stopCmd' = IF pidFile = "absent"
                THEN [stopCmd EXCEPT !.pc = "catch"]
                ELSE [stopCmd EXCEPT !.pc = "done", !.outcome = "returned"]
  /\ pidFile' = "absent"
  /\ UNCHANGED <<procs, port, status>>

\* The outer catch: fs.existsSync(pidPath); without the file it rethrows.
StopCatch ==
  /\ CliTask
  /\ stopCmd.pc = "catch"
  /\ stopCmd' = IF pidFile = "absent"
                THEN [stopCmd EXCEPT !.pc = "done", !.outcome = "threw"]
                ELSE [stopCmd EXCEPT !.pc = "catchUnlink"]
  /\ UNCHANGED <<pidFile, procs, port, status>>

\* The outer catch: fs.unlinkSync(pidPath); the command throws, the error
\* it caught or the one of the unlink.
StopCatchUnlink ==
  /\ CliTask
  /\ stopCmd.pc = "catchUnlink"
  /\ stopCmd' = [stopCmd EXCEPT !.pc = "done", !.outcome = "threw"]
  /\ pidFile' = "absent"
  /\ UNCHANGED <<procs, port, status>>

CliNext ==
  \/ ProcSpawn
  \/ ProcExit
  \/ FileTamper
  \/ StartLaunch
  \/ StartListening
  \/ StartBindError
  \/ StartWritePid
  \/ StartSignal
  \/ StartCleanupExists
  \/ StartCleanupUnlink
  \/ StatusExists
  \/ StatusRead
  \/ StatusKill
  \/ StatusProbe
  \/ StatusProbeEnds
  \/ StatusCleanup
  \/ StatusUnlink

CliSpec == Init /\ [][CliNext]_vars

\* `start` and `stop` next to each other and to the rest of the system.
StopCmdNext ==
  \/ ProcSpawn
  \/ ProcExit
  \/ FileTamper
  \/ StartLaunch
  \/ StartListening
  \/ StartBindError
  \/ StartWritePid
  \/ StartSignal
  \/ StartCleanupExists
  \/ StartCleanupUnlink
  \/ StopExists
  \/ StopRead
  \/ StopKill
  \/ StopUnlink
  \/ StopTerm
  \/ StopGraceOver
  \/ StopForce
  \/ StopExistsAfter
  \/ StopUnlinkAfter
  \/ StopCatch
  \/ StopCatchUnlink

StopCmdSpec == Init /\ [][StopCmdNext]_vars

\* ------------------------------------------------------- the error handler

\* Every feature retries through the one exported ErrorHandler, so every
\* retryWithBackoff call reads and writes the same retryAttempts map.
RetryTask == UNCHANGED <<clientVars, serverVars, handlerVars, cliVars>>

\* const id = operationId || 'default'
operationIdOf(arg) == IF arg \in {"undefined", ""} THEN "default" ELSE arg

\* Math.pow(2, i) * 1000
backoffDelay(i) == (2 ^ i) * 1000

\* getRetryCount(operationId): this.retryAttempts.get(operationId) || 0
getRetryCount(id) == IF id \in DOMAIN retryAttempts THEN retryAttempts[id] ELSE 0

\* this.retryAttempts.delete(id) and this.retryAttempts.set(id, n)
retryDelete(m, id) == [x \in DOMAIN m \ {id} |-> m[x]]
retrySet(m, id, n) == [x \in DOMAIN m \cup {id} |-> IF x = id THEN n ELSE m[x]]

\* The loop test with the body's first statement: fn is invoked when
\* i < maxRetries, and past the loop `lastError || new Error('Retry failed')`
\* is thrown (thrown 0: the new Error).  Errors and results are named by the
\* invocation they come from.
enterLoop(op) ==
  IF op.i < op.maxRetries
  THEN [op EXCEPT !.pc = "awaiting", !.calls = @ + 1]
  ELSE [op EXCEPT !.pc = "threw", !.thrown = op.lastError]

\* retryWithBackoff(fn, maxRetries, operationId) is called: up to the first
\* await.
RetryCall ==
  \E o \in 1..MaxOps, arg \in OperationIdArgs, n \in 0..MaxRetries :
    /\ RetryTask
    /\ operations[o].pc = "idle"
    /\ operations' = [operations EXCEPT
         ![o] = enterLoop([OperationIdle EXCEPT !.id = operationIdOf(arg), !.maxRetries = n])]
    /\ UNCHANGED retryAttempts

\* The promise of fn() fulfils: the count of the id is deleted and the
\* result returned.
RetryFnFulfils ==
  \E o \in 1..MaxOps :
    /\ RetryTask
    /\ operations[o].pc = "awaiting"
    /\ retryAttempts' = retryDelete(retryAttempts, operations[o].id)
    /\ operations' = [operations EXCEPT ![o].pc = "returned", ![o].result = operations[o].calls]

\* The promise of fn() rejects: the catch block, up to the throw or to the
\* await of the delay.
RetryFnRejects ==
  \E o \in 1..MaxOps :
    LET op == operations[o] IN
    /\ RetryTask
    /\ op.pc = "awaiting"
    /\ retryAttempts' = retrySet(retryAttempts, op.id, op.i + 1)
    /\ operations' = [operations EXCEPT
         ![o] = IF op.i = op.maxRetries - 1
                THEN [op EXCEPT !.pc = "threw", !.failed = @ + 1, !.lastError = op.calls,
                                !.thrown = op.calls]
                ELSE [op EXCEPT !.pc = "delaying", !.failed = @ + 1, !.lastError = op.calls,
                                !.waits = Append(@, backoffDelay(op.i))]]

\* The timer of this.delay(delay) runs: i++ and the loop goes round.
RetryDelayOver ==
  \E o \in 1..MaxOps :
    /\ RetryTask
    /\ operations[o].pc = "delaying"
    /\ operations' = [operations EXCEPT ![o] = enterLoop([operations[o] EXCEPT !.i = @ + 1])]
    /\ UNCHANGED retryAttempts

RetryNext ==
  \/ RetryCall
  \/ RetryFnFulfils
  \/ RetryFnRejects
  \/ RetryDelayOver

RetrySpec == Init /\ [][RetryNext]_vars

\* ----------------------------------------------------------------- claims

\* The requests whose Pending Request Table entry holds their own callbacks.
InFlight(st) ==
  {k \in 1..Len(st.reqs) :
     st.reqs[k].id \in DOMAIN st.pendingRequests /\ st.pendingRequests[st.reqs[k].id] = k}

C2_SettledOnceTimerHasRun ==
  \A k \in 1..Len(reqs) : reqs[k].timer = Fired => reqs[k].fut # "pending"

\* C3: for every frame the server's listener is given it sends exactly one
\* message back, and for an envelope that message carries the envelope's
\* requestId (no requestId when the envelope has none): nothing is answered
\* twice, nothing dropped.
C3_OneResponseWithSameRequestId ==
  \A c \in 1..Len(conns) :
    /\ Len(srvOut[c]) = Len(srvIn[c])
    /\ \A j \in 1..Len(srvIn[c]) :
         srvIn[c][j].kind = "envelope" =>
           /\ srvOut[c][j].requestId = srvIn[c][j].requestId
           /\ srvOut[c][j].type \in {"component-selected", "error"}

\* One connection has answered a request of a known type with a result and
\* a request of an unknown type with an error, each under its own id.
C3_Witness ==
  \E c \in 1..Len(conns) :
    /\ Len(srvIn[c]) = 2
    /\ srvIn[c][1] = [kind |-> "envelope", type |-> "open-editor", requestId |-> "r1"]
    /\ srvIn[c][2] = [kind |-> "envelope", type |-> "bogus", requestId |-> "r2"]
    /\ srvOut[c][1].type = "component-selected" /\ srvOut[c][1].requestId = "r1"
    /\ srvOut[c][2].type = "error" /\ srvOut[c][2].requestId = "r2"

\* C4: the requests queued while the client was not connected are
\* transmitted, in the order in which they were queued, once a later
\* connection attempt succeeds: the task in which the transport of the
\* client's latest attempt opens hands the whole queue, in order, to that
\* transport and leaves the queue empty, so that every later send()
\* transmits behind them.
C4_QueueFlushedInOrderWhenAttemptSucceeds ==
  [][LET i == Len(sockets) IN
       (i > 0 /\ sockets[i].state = "CONNECTING" /\ sockets'[i].state = "OPEN") =>
         /\ sent' = sent \o [j \in 1..Len(messageQueue) |-> <<i, messageQueue[j]>>]
         /\ messageQueue' = <<>>]_vars

\* C5: a connect() made right after a connect(), or while the transport is
\* open, creates no WebSocket: two calls in immediate succession make one
\* connection attempt between them.
C5_SecondConnectCreatesNoTransport ==
  [][(lastCall'.call = "connect" /\ (lastCall.call = "connect" \/ wsIsOpen(State)))
       => sockets' = sockets]_vars

\* connect() called twice from the initial state: the second call returned
\* early and one WebSocket exists.
C5_Witness ==
  /\ nEvents = 2
  /\ reqs = <<>>
  /\ lastCall.call = "connect"
  /\ lastCall.outcome = "joined"
  /\ Len(sockets) = 1
  /\ sockets[1].state = "CONNECTING"

\* C6: the promise of a connect() made while an attempt is in progress does
\* not resolve before the client is connected.
C6_JoinedConnectResolvesOnlyWhenConnected ==
  (lastCall.call = "connect" /\ lastCall.outcome = "joined" /\ lastCall.promise = "resolved")
    => wsIsOpen(State)

\* C7: the promise of a connect() that started an attempt is settled within
\* the 5 s window: once the attempt's 5 s timer has run, the promise is not
\* pending.
C7_ConnectSettledOnceTimerHasRun ==
  \A i \in 1..Len(sockets) : sockets[i].timer = Fired => sockets[i].promise # "pending"

\* C8: when send() returns having queued its request, the request is the
\* last of the Outbound Queue, its entry is in the Pending Request Table, and
\* a connection attempt is under way: a transport the client created is
\* connecting.  (That the id is fresh is C19's matter and is not stated here.)
C8_QueuedSendLeavesAttemptInProgress ==
  (lastCall.call = "send" /\ lastCall.outcome = "queued") =>
    /\ messageQueue # <<>> /\ messageQueue[Len(messageQueue)] = Len(reqs)
    /\ Len(reqs) \in InFlight(State)
    /\ \E i \in 1..Len(sockets) : sockets[i].state = "CONNECTING"

\* C9: a request that has had no response when its 10 s are over has its
\* entry removed and its future rejected with the request-timeout error.
\* (The claim's second half, that a response arriving afterwards settles no
\* future, is the `late` mark of handleMessage.)
C9_TimedOutRequestIsRejected ==
  \A k \in 1..Len(reqs) :
    (reqs[k].timer = Fired /\ reqs[k].by \notin Envelopes({reqs[k].id})) =>
      /\ reqs[k].id \notin DOMAIN pendingRequests
      /\ reqs[k].fut = "rejected"
      /\ reqs[k].val = "Request timeout"

\* C10: disconnect() rejects, with a Disconnected error, every future whose
\* entry is in the Pending Request Table when it is called.
C10_DisconnectRejectsInFlight ==
  [][lastCall'.call = "disconnect" =>
       \A k \in InFlight(State) :
         reqs'[k].fut = "rejected" /\ reqs'[k].val = "Disconnected"]_vars

\* C11: the closure that disconnect() causes schedules no reconnection: when
\* a transport that disconnect() closed (the only way a socket gets to
\* CLOSING) reaches CLOSED, no reconnect timer is armed for it.
C11_DisconnectClosureSchedulesNoReconnect ==
  [][\A i \in 1..Len(sockets) :
       (sockets[i].state = "CLOSING" /\ sockets'[i].state = "CLOSED") =>
         sockets'[i].reconnectIn = Unarmed]_vars

\* C12: right after disconnect() has returned the Outbound Queue and the
\* Pending Request Table are empty, the reconnect counter is 0 and the
\* client holds no transport, so that isConnected() is false.
C12_AfterDisconnectAllIsReset ==
  lastCall.call = "disconnect" =>
    /\ messageQueue = <<>>
    /\ DOMAIN pendingRequests = {}
    /\ reconnectAttempts = 0
    /\ ws = 0
    /\ ~wsIsOpen(State)

\* disconnect() has just returned in a client that had a request queued and
\* registered, a reconnection counted and a second transport under way.
C12_Witness ==
  /\ lastCall.call = "disconnect"
  /\ Len(reqs) = 1 /\ reqs[1].queued /\ reqs[1].fut = "pending" /\ reqs[1].timer > 0
  /\ Len(sockets) = 2
  /\ sockets[1].reconnectIn = Fired
  /\ sockets[2].state = "CLOSING"

\* The transports that have closed.
Closed(st) == {i \in 1..Len(st.sockets) : st.sockets[i].state = "CLOSED"}

\* The delays of the claimed schedule.
BackoffDelays == <<1000, 2000, 4000, 8000, 16000>>

DocumentedDelays == <<0, 1000, 2000, 4000>>

\* C14: the documented schedule: the n-th consecutive closure arms the timer
\* of automatic attempt n with no delay for n = 1, with 1 s, 2 s and 4 s for
\* n = 2, 3, 4, and there are at most 5 attempts: the 6th and every later
\* closure arms none.
C14_DocumentedReconnectionSchedule ==
  [][\A i \in 1..Len(sockets) :
       (sockets[i].state # "CLOSED" /\ sockets'[i].state = "CLOSED") =>
         LET n == Cardinality(Closed(State)) + 1
         IN  /\ n <= Len(DocumentedDelays) => sockets'[i].reconnectIn = DocumentedDelays[n]
             /\ n > maxReconnectAttempts => sockets'[i].reconnectIn = Unarmed]_vars

\* Automatic reconnection is exhausted: the counter is at its cap, every
\* transport has closed and no reconnect timer is left to fire.
Exhausted(st) ==
  /\ st.reconnectAttempts >= maxReconnectAttempts
  /\ Closed(st) = 1..Len(st.sockets)
  /\ \A i \in 1..Len(st.sockets) : st.sockets[i].reconnectIn \in {Fired, Unarmed}

\* C15: a connect() by the caller made once automatic reconnection is
\* exhausted restarts it: when the attempt that this connect() has just
\* started fails, a reconnection is scheduled.
C15_FreshConnectRestartsReconnection ==
  [][LET i == Len(sockets) IN
       (/\ lastCall.call = "connect" /\ lastCall.outcome = "created"
        /\ Exhausted([State EXCEPT !.sockets = SubSeq(sockets, 1, i - 1)])
        /\ sockets[i].state = "CONNECTING" /\ sockets'[i].state = "CLOSED")
         => sockets'[i].reconnectIn > 0]_vars

\* C16: a send() made once automatic reconnection is exhausted fails fast:
\* the future it returns is already rejected, not left to the 10 s timer.
C16_SendAfterExhaustionFailsFast ==
  [][(Exhausted(State) /\ lastCall'.call = "send") =>
       reqs'[Len(reqs')].fut = "rejected"]_vars

\* C17: the reconnect counter is always between 0 and 5; the task in which a
\* transport opens leaves it at 0; and it grows only in a task in which a
\* transport closes, by one for that closure.
C17_ReconnectCounter ==
  /\ [](reconnectAttempts \in 0..maxReconnectAttempts)
  /\ [][/\ (\E i \in 1..Len(sockets) :
              sockets[i].state # "OPEN" /\ sockets'[i].state = "OPEN")
            => reconnectAttempts' = 0
        /\ reconnectAttempts' > reconnectAttempts =>
             /\ reconnectAttempts' = reconnectAttempts + 1
             /\ Cardinality(Closed([sockets |-> sockets'])) = Cardinality(Closed(State)) + 1]_vars

\* The counter had reached its cap, and the transport of the fifth automatic
\* attempt has opened and set it to 0.
C17_Witness ==
  /\ Len(sockets) = 6
  /\ Closed(State) = 1..5
  /\ \A i \in 1..5 : sockets[i].reconnectIn = Fired
  /\ sockets[6].state = "OPEN"
  /\ reconnectAttempts = 0

\* C18: an entry of the Pending Request Table is gone once the 10 s timer of
\* the request that made it has run, and a request that holds an entry is not
\* settled; a future is settled only in a step that finds the entry under
\* its id and removes it; and a timer that finds no entry under its id
\* changes neither the table nor any future.
C18_EntryRemovedOnceByResponseOrTimeout ==
  /\ [](\A k \in InFlight(State) :
          reqs[k].timer # Fired /\ reqs[k].fut = "pending")
  /\ [][\A k \in 1..Len(reqs) :
          /\ reqs'[k].fut # reqs[k].fut =>
                /\ reqs[k].id \in DOMAIN pendingRequests
                /\ reqs[k].id \notin DOMAIN pendingRequests'
          /\ (/\ reqs[k].timer = 0
              /\ reqs'[k].timer = Fired
              /\ reqs[k].id \notin DOMAIN pendingRequests) =>
                /\ pendingRequests' = pendingRequests
                /\ \A j \in 1..Len(reqs) : reqs'[j].fut = reqs[j].fut]_vars

\* A response has resolved the request and removed its entry, and the 10 s
\* timer has run afterwards and found nothing.
C18_Witness ==
  /\ Len(reqs) = 1
  /\ reqs[1].fut = "resolved"
  /\ reqs[1].by \in Envelopes({reqs[1].id})
  /\ reqs[1].timer = Fired
  /\ DOMAIN pendingRequests = {}

\* The requests whose future is pending and whose 10 s timer has not run.
Unsettled(st) ==
  {k \in 1..Len(st.reqs) : st.reqs[k].fut = "pending" /\ st.reqs[k].timer # Fired}

\* C19: two requests that are unsettled at the same time have different
\* requestIds.
C19_InFlightRequestsHaveDistinctIds ==
  \A j, k \in Unsettled(State) : j # k => reqs[j].id # reqs[k].id

\* The connection state as the client's own fields give it: Connected when
\* isConnected() holds, Connecting when an attempt is in progress
\* (isConnecting), Disconnected otherwise.
ConnectionState(st) ==
  IF wsIsOpen(st) THEN "Connected"
  ELSE IF st.isConnecting THEN "Connecting"
  ELSE "Disconnected"

Transitions ==
  {<<"Disconnected", "Connecting">>, <<"Connecting", "Connected">>,
   <<"Connecting", "Disconnected">>, <<"Connected", "Disconnected">>}

\* C20: the connection state starts as Disconnected and changes only along
\* Disconnected -> Connecting, Connecting -> Connected,
\* Connecting -> Disconnected and Connected -> Disconnected.
C20_ConnectionStateTransitions ==
  /\ ConnectionState(State) = "Disconnected"
  /\ [][LET now  == ConnectionState(State)
            next == ConnectionState([sockets |-> sockets', ws |-> ws',
                                     isConnecting |-> isConnecting'])
        IN  now # next => <<now, next>> \in Transitions]_vars

\* C21: an envelope whose requestId names no entry of the Pending Request
\* Table invokes the handler of the latest on() call for its type, unless an
\* off() for that type came after it, and then invokes none; the handler it
\* invokes is never one that only another type has registered.
C21_LatestListenerOfTheKindIsInvoked ==
  [][delivered' # delivered =>
       LET m == delivered'
       IN  (m.requestId = NoRequestId \/ m.requestId \notin DOMAIN pendingRequests) =>
             m.handler = registered[m.type]]_vars

\* Each type has its own listener, a request is in flight, and an envelope
\* of type component-selected that answers no request has invoked the
\* listener of that type.
C21_Witness ==
  /\ registered["error"] = "h1"
  /\ registered["component-selected"] = "h2"
  /\ delivered.type = "component-selected"
  /\ delivered.requestId = NoRequestId
  /\ delivered.handler = "h2"
  /\ DOMAIN pendingRequests # {}

\* C22: the answer to an envelope whose type is none of the four request
\* types is an 'error' envelope with the envelope's requestId and a message
\* that names the type.
C22_UnknownTypeAnsweredWithError ==
  \A c \in 1..Len(conns) :
    \A j \in 1..Len(srvIn[c]) :
      (srvIn[c][j].kind = "envelope" /\ srvIn[c][j].type \notin RequestTypes) =>
        /\ j <= Len(srvOut[c])
        /\ srvOut[c][j] = [type |-> "error", requestId |-> srvIn[c][j].requestId,
                           payload |-> "Unknown message type: " \o srvIn[c][j].type]

\* Two connections have each received an envelope of an unknown type, under
\* different ids, and each has been answered with its own error.
C22_Witness ==
  /\ Len(conns) = 2
  /\ srvIn[1] = <<[kind |-> "envelope", type |-> "bogus", requestId |-> "r1"]>>
  /\ srvIn[2] = <<[kind |-> "envelope", type |-> "bogus", requestId |-> "r2"]>>
  /\ srvOut[1] = <<[type |-> "error", requestId |-> "r1",
                    payload |-> "Unknown message type: bogus"]>>
  /\ srvOut[2] = <<[type |-> "error", requestId |-> "r2",
                    payload |-> "Unknown message type: bogus"]>>

\* C23: a request whose handler raises is answered with one 'error' envelope
\* that carries the request's requestId and the error's message; the task
\* leaves the connection open, and every frame received before or after it,
\* on any connection, has its one answer.
C23_HandlerErrorBecomesErrorResponse ==
  /\ [](\A c \in 1..Len(conns) :
          /\ Len(srvOut[c]) = Len(srvIn[c])
          /\ \A j \in 1..Len(srvIn[c]) :
               srvIn[c][j].raises =>
                 srvOut[c][j] = [type |-> "error", requestId |-> srvIn[c][j].requestId,
                                 payload |-> HandlerError])
  /\ [][\A c \in 1..Len(conns) :
          Len(srvIn'[c]) > Len(srvIn[c]) => conns'[c] = "OPEN"]_vars

\* A handler has raised on connection 1; the request was answered with the
\* error, and the next request on that connection with its result.
C23_Witness ==
  /\ Len(conns) >= 1
  /\ conns[1] = "OPEN"
  /\ Len(srvIn[1]) = 2
  /\ srvIn[1][1].raises /\ srvIn[1][1].requestId = "r1"
  /\ srvOut[1][1] = [type |-> "error", requestId |-> "r1", payload |-> HandlerError]
  /\ ~srvIn[1][2].raises /\ srvIn[1][2].type = "insert-code" /\ srvIn[1][2].requestId = "r2"
  /\ srvOut[1][2] = [type |-> "component-selected", requestId |-> "r2", payload |-> "pending"]

\* The frames connection c has received from which no requestId can be
\* read: text JSON.parse rejects, and the JSON text null.
Malformed(c) == {j \in 1..Len(srvIn[c]) : srvIn[c][j].kind # "envelope"}

\* C24: nothing is sent back for a frame from which no requestId can be
\* recovered: a connection has sent no more messages than it has received
\* envelopes.
C24_MalformedInputIsDropped ==
  \A c \in 1..Len(conns) :
    Len(srvOut[c]) <= Len(srvIn[c]) - Cardinality(Malformed(c))

\* C25: a stop() promise resolves only in a task that leaves the server
\* without a listener; while the server has none, every connection it had is
\* closed and no frame is given to routeMessage.
C25_NothingDispatchedAfterStop ==
  /\ [](wss = "null" => \A c \in 1..Len(conns) : conns[c] = "CLOSED")
  /\ [][/\ wss = "null" => srvIn' = srvIn
        /\ \A k \in 1..Len(stops') :
             (stops'[k] = "resolved" /\ (k > Len(stops) \/ stops[k] = "pending")) =>
               wss' = "null"]_vars

\* A connection was open and had been answered when stop() was called; it
\* has closed since, and stop() has resolved.
C25_Witness ==
  /\ wss = "null"
  /\ stops = <<"resolved">>
  /\ Len(conns) = 1
  /\ conns[1] = "CLOSED"
  /\ Len(srvIn[1]) = 2

\* C26: a stop() called while the server has no listener (never started, or
\* stopped before) returns a resolved promise and changes nothing; and no
\* stop() call leaves a listener that accepts connections.
C26_StopIsIdempotent ==
  [][Len(stops') > Len(stops) =>
       /\ wss' # "listening"
       /\ wss = "null" =>
            /\ stops'[Len(stops')] = "resolved"
            /\ UNCHANGED <<wss, conns, srvIn, srvOut>>
            /\ SubSeq(stops', 1, Len(stops)) = stops]_vars

\* The server was started and had a connection; stop() has been called
\* twice and both promises are resolved.
C26_Witness ==
  /\ wss = "null"
  /\ stops = <<"resolved", "resolved">>
  /\ Len(conns) = 1
  /\ conns[1] = "CLOSED"
  /\ Len(srvIn[1]) = 1

\* The response type documented for each request type.
ResponseType ==
  [t \in RequestTypes |->
     CASE t = "component-selected" -> "component-selected-ack"
       [] t = "open-editor"        -> "open-editor-result"
       [] t = "generate-testids"   -> "testids-generated"
       [] t = "insert-code"        -> "code-inserted"]

\* C27: the answer to a request of one of the four request types has the
\* response type paired with the request's type.
C27_ResponseTypePairedWithRequestType ==
  \A c \in 1..Len(conns) :
    \A j \in 1..Len(srvOut[c]) :
      (srvIn[c][j].kind = "envelope" /\ srvIn[c][j].type \in RequestTypes) =>
        srvOut[c][j].type = ResponseType[srvIn[c][j].type]


\* The texts that are the decimal form of a process id.
PidTexts == {DecimalText[p] : p \in Pids}

\* C28: the status check reports "not running" when there is no PID file,
\* when the file's content is not a valid process id, and when the recorded
\* process does not exist; in the last case the stale file is deleted; in
\* none of the three is a transport probe opened.
C28_NoProbeWithoutLiveRecord ==
  /\ [](status.text \notin PidTexts \cup {"none"} =>
          /\ status.pc # "probe" /\ ~status.probed
          /\ status.pc = "done" => status.report = "not running")
  /\ [](status.pc \in {"cleanup", "unlink"} =>
          ~status.probed /\ status.report = "not running")
  /\ [][
         /\ (status.pc \in {"idle", "done"} /\ status' # status /\ pidFile = "absent") =>
             (status'.pc = "done" /\ status'.report = "not running" /\ ~status'.probed)
         /\ (status.pc = "kill" /\ status'.pc # "kill"
               /\ status.pid \in Pids /\ procs[status.pid] = "free") =>
             status'.pc = "cleanup"
         /\ (status.pc = "cleanup" /\ status'.pc # "cleanup" /\ pidFile # "absent") =>
             status'.pc = "unlink"
         /\ (status.pc = "unlink" /\ status'.pc # "unlink") =>
             pidFile' = "absent"]_vars

\* C29: when the PID file names an existing process the status check opens
\* the probe and reports "healthy" if the transport opened and "not
\* responding" if it failed or 3 s passed, never "not running", and the
\* file is kept.
C29_LiveRecordIsProbed ==
  /\ [](status.probed /\ status.pc = "done" =>
          status.report \in {"healthy", "not responding"})
  /\ [][
         /\ (status.pc = "kill" /\ status'.pc # "kill"
               /\ status.pid \in Pids /\ procs[status.pid] # "free") =>
             status'.pc = "probe"
         /\ (status.pc \in {"probe", "probing"} /\ status' # status) =>
             /\ pidFile' = pidFile
             /\ status'.report = "healthy" => port # 0]_vars

\* The PID file names a process that exists.
RecordAlive == pidFile \in PidTexts /\ procs[parseIntOf(pidFile)] # "free"

\* C30: while the PID file names a live process, starting the server in
\* another process fails:
\* no further server begins to listen and startCommand leaves the file as it
\* is.
C30_StartRefusedWhileRecordAlive ==
  [][RecordAlive =>
       \A p \in Pids \ {parseIntOf(pidFile)} :
         /\ ~(procs[p] = "start" /\ procs'[p] = "listening")
         /\ (procs[p] = "listening" /\ procs'[p] = "running") => pidFile' = pidFile]_vars


C32_LateResponseInvokesNoListener ==
  [][delivered' # delivered =>
       LET m == delivered'
       IN  (Expired(State, m.requestId) # {} /\ m.requestId \notin DOMAIN pendingRequests) =>
             /\ m.handler = NoHandler
             /\ \A k \in 1..Len(reqs) : reqs'[k].fut = reqs[k].fut]_vars


\* The frames of connection c that carry requestId r and have been answered,
\* and the messages sent on connection c under requestId r.
AnsweredFrames(c, r) ==
  {j \in 1..Len(srvIn[c]) : srvIn[c][j].kind = "envelope" /\ srvIn[c][j].requestId = r
                              /\ ~srvIn[c][j].inFlight}
ResponsesOn(c, r) ==
  {j \in 1..Len(srvOut[c]) : srvOut[c][j].requestId = r}

\* C33: every result or error sent on a connection answers a request that
\* arrived on that connection: under each requestId a connection is sent no
\* more messages than it has requests whose handling has ended, also while
\* handlers of several connections are in flight.
C33_ResponseOnTheRequestsConnection ==
  \A c \in 1..Len(conns) :
    \A r \in RequestIds \ {"absent"} :
      Cardinality(ResponsesOn(c, r)) <= Cardinality(AnsweredFrames(c, r))

\* Two connections each had a request in flight at the same time; the one
\* that came second was answered first, each on its own connection.
C33_Witness ==
  /\ Len(conns) = 2
  /\ Len(srvIn[1]) = 1 /\ Len(srvIn[2]) = 1
  /\ srvIn[1][1].requestId = "r1" /\ srvIn[2][1].requestId = "r2"
  /\ srvIn[1][1].inFlight /\ ~srvIn[2][1].inFlight
  /\ srvOut[1] = <<>>
  /\ Len(srvOut[2]) = 1 /\ srvOut[2][1].requestId = "r2"


\* The transports the client created that are connecting or open.
LiveTransports == {i \in 1..Len(sockets) : sockets[i].state \in {"CONNECTING", "OPEN"}}

\* C34: at most one of the WebSockets the client created is connecting or
\* open, and an open one is the one this.ws refers to.
C34_AtMostOneLiveTransport ==
  /\ Cardinality(LiveTransports) <= 1
  /\ \A i \in 1..Len(sockets) : sockets[i].state = "OPEN" => ws = i


\* C35: the task in which the 5 s timer of attempt i runs leaves the
\* isConnecting flag set when a later attempt is still connecting and has
\* its own 5 s ahead, and settles the promise of no other attempt.
C35_ConnectTimerAffectsOwnAttemptOnly ==
  [][\A i \in 1..Len(sockets) :
       (sockets[i].timer # Fired /\ sockets'[i].timer = Fired) =>
         /\ (\E j \in (i + 1)..Len(sockets) :
                /\ sockets[j].state = "CONNECTING"
                /\ sockets[j].timer > 0
                /\ isConnecting) => isConnecting'
         /\ \A j \in 1..Len(sockets) \ {i} : sockets'[j].promise = sockets[j].promise]_vars


\* C36: the id of every request in the Outbound Queue has an entry in the
\* Pending Request Table, and no request whose future is already rejected is
\* handed to a transport.
C36_QueuedRequestsArePending ==
  /\ [](\A j \in 1..Len(messageQueue) :
          reqs[messageQueue[j]].id \in DOMAIN pendingRequests)
  /\ [][\A n \in (Len(sent) + 1)..Len(sent') :
          reqs'[sent'[n][2]].fut # "rejected"]_vars


\* The places of request k in the record of what was handed to transports,
\* and the requests of a sequence of request numbers.
Transmissions(snt, k) == {n \in 1..Len(snt) : snt[n][2] = k}
Queued(q) == {q[j] : j \in 1..Len(q)}

C38_CommandsSpareTheRunningServersRecord ==
  [][\A p \in Pids :
       (/\ procs[p] = "running" /\ procs'[p] = "running"
        /\ pidFile = DecimalText[p]
        /\ (stopCmd' # stopCmd \/ status' # status))
       => pidFile' = pidFile]_vars

ExpectedWaits(n) == [k \in 1..n |-> (2 ^ (k - 1)) * 1000]

\* C40: a retryWithBackoff call invokes fn at most maxRetries times and not
\* again after a success, whose result it returns; it has waited
\* 2^i * 1000 ms after the i-th failure and not after the last; it throws
\* the last error after maxRetries failures; getRetryCount(id) is 0 right
\* after a success and is the number of failed invocations of every call
\* under that id that has not succeeded, also with several calls under one
\* id.
C40_RetryWithBackoff ==
  /\ [](\A o \in 1..MaxOps :
          LET op == operations[o] IN
          /\ op.calls <= op.maxRetries
          /\ op.pc = "returned" =>
                op.result = op.calls /\ op.failed = op.calls - 1 /\ op.waits = ExpectedWaits(op.failed)
          /\ op.pc = "delaying" => op.waits = ExpectedWaits(op.failed)
          /\ op.pc = "threw" /\ op.maxRetries > 0 =>
                /\ op.failed = op.maxRetries /\ op.thrown = op.calls
                /\ op.waits = ExpectedWaits(op.failed - 1)
          /\ op.pc \in {"awaiting", "delaying", "threw"} => getRetryCount(op.id) = op.failed)
  /\ [][\A o \in 1..MaxOps :
          /\ operations[o].pc = "returned" => operations'[o] = operations[o]
          /\ (operations[o].pc = "awaiting" /\ operations'[o].pc = "returned")
               => getRetryCount(operations[o].id)' = 0]_vars

====
